---- MODULE Spec2Model ----
(***************************************************************************)
(* Verification model of the QLK token statistics dashboard:               *)
(*   - BlockchainDataService (src/src/services/blockchainData.ts): the     *)
(*     TTL cache, withRetry and the public fetch methods;                  *)
(*   - DexScreenerService.getTokenData (src/src/services/                  *)
(*     dexscreenerService.ts);                                             *)
(*   - the useTokenData polling hook (src/unnamed/part_003);               *)
(*   - the viewport of ProfessionalChartEngine (src/src/components/charts/ *)
(*     ChartEngine.tsx).                                                   *)
(* Each subsystem has its own specification over the shared variables; a   *)
(* specification leaves the variables of the other subsystems unchanged.   *)
(* Times are milliseconds, as returned by Date.now().                      *)
(***************************************************************************)
EXTENDS Integers, Sequences, FiniteSets, TLC

VARIABLES
    now,          \* Date.now()
    cache,        \* BlockchainDataService.cache : key -> entry | NoEntry
    lastSet,      \* history: per key, the latest setCachedData not cleared since
    lastGet       \* history: the latest getCachedData call and what it returned
                  \* (n flips at every call)

VARIABLES
    retry,        \* one withRetry invocation (SpecRetry)
    retryStartedAt \* history: Date.now() when it was called

VARIABLES
    hook,           \* the React state of useTokenData
    reqs,           \* the fetchData invocations made so far
    controller,     \* abortControllerRef.current: the refresh it belongs to, or 0
    mounted,        \* "no", "yes" or "gone"
    effectRc,       \* the retryCount captured by the fetchData of the polling effect
    nextPoll,       \* when the setInterval of the polling effect fires next
    caller,         \* history: who called fetchData last
    outage          \* the upstream is down: every refresh fails (set before mount)

VARIABLES
    provCache,      \* DexScreenerService.cache: the entry of the token key
    provCalls       \* the invocations of getTokenData

VARIABLES
    zoom,         \* ChartState.zoom : {start, end}, fractions in units of 1/Unit
    selection,    \* ChartState.selection : {start, end} | NoSelection
    lastOp        \* history: the latest pointer event (n counts the events)

VARIABLES
    chart,        \* ChartState: data, loading, error, lastUpdate
    loads,        \* the loadData invocations made so far
    raf,          \* animationFrame and the callbacks requestAnimationFrame holds
    observing,    \* the ResizeObserver observes the canvas
    listening,    \* the pointer listeners are registered on the canvas
    destroyed     \* history: destroy() has returned

VARIABLES
    rateLimitMap, \* SecurityService.rateLimitMap : identifier -> entry | NoRateEntry
    rateWindow,   \* history: per identifier, the start of its current window and
                  \* the number of checkRateLimit calls made in it
    lastCheck     \* history: the latest checkRateLimit call and its result

VARIABLES
    dex,          \* the TokenData snapshot a derivation received (NoDex: none yet)
    stats,        \* the TokenStats fetchTokenStats derived from it
    transactions  \* the transactions generateRealisticTransactions made from it

VARIABLES
    candles,         \* the candles of the chart (open and close of each)
    sma,             \* period and values of the moving average computed on them
    engineDrawn,     \* what drawCandlesticks of the chart engine last drew
    quantlinkDrawn   \* what drawCandlestickChart of QuantlinkChart last drew

VARIABLES
    holderData,   \* what getRealTimeHolderData answered: totalHolders, topHolders.length
    holders       \* the list generateRealisticHolders returned ("top" / "small" entries)

VARIABLES
    calls         \* the calls of the public fetch methods made so far (SpecOrch)

cacheVars == <<now, cache, lastSet, lastGet>>
retryVars == <<retry, retryStartedAt>>
orchVars == <<calls>>
viewVars == <<zoom, selection, lastOp>>
provVars == <<provCache, provCalls>>
chartVars == <<chart, loads, raf, observing, listening, destroyed>>
rateVars == <<rateLimitMap, rateWindow, lastCheck>>
deriveVars == <<dex, stats, transactions>>
candleVars == <<candles, sma, engineDrawn, quantlinkDrawn>>
holderVars == <<holderData, holders>>
hookVars == <<hook, reqs, controller, mounted, effectRc, nextPoll, caller, outage>>

vars == <<cacheVars, retryVars, orchVars, viewVars, provVars, hookVars, chartVars, rateVars, deriveVars, candleVars, holderVars>>

(***************************************************************************)
(* Bounds of the model.                                                    *)
(***************************************************************************)
MaxEarly == 3      \* instants 0, 1 s, ..., MaxEarly s after the start
MaxLate == 2       \* instants CACHE_DURATION - 1 s, ..., CACHE_DURATION + MaxLate s
MaxAttempts == 4   \* largest maxRetries argument given to withRetry
MaxCalls == 5      \* calls of fetch methods, nested ones included
MaxFailures == 3   \* provider requests that reject
MaxReqs == 3      \* fetchData invocations of one hook
MaxOutageReqs == 5 \* fetchData invocations of one hook during an outage
MaxProvCalls == 3 \* calls of getTokenData
MaxLoads == 3     \* loadData invocations of one chart
MaxChartOps == 1  \* pointer events handled by a chart that loads data
MaxTop == 10       \* top holders in one answer of the provider
MaxLen == 3        \* candles in one data set
MaxPeriod == 3     \* largest period of a moving average
MaxChecks == 62    \* checkRateLimit calls of one identifier in one window
MaxOps == 6        \* pointer events handled by one chart
Unit == 1000000    \* resolution of the viewport fractions: 1.0 is Unit
CanvasWidth == 100 \* rect.width of the canvas, in pixels

(***************************************************************************)
(* Program constants.                                                      *)
(***************************************************************************)
CACHE_DURATION == 30000
MAX_RETRIES == 3
RETRY_DELAY == 1000
PROVIDER_CACHE_DURATION == 30000
MAX_REQUESTS_PER_MINUTE == 60
RATE_WINDOW == 60000
RATE_ENTRY_MAX_AGE == 3600000
FALLBACK_SUPPLY == 100000000
MAX_SMALL_HOLDERS == 50
MIN_TX_COUNT == 50
MAX_TX_COUNT == 100

Null == "null"                          \* a missing key, method or event
NoData == 0                             \* getCachedData's null; datasets are ids > 0
NoError == <<>>                         \* errors are tuples: message, then cause
NoEntry == [data |-> NoData, timestamp |-> -1]
NoSet == [data |-> NoData, at |-> -1, ttl |-> 0]

\* cache keys used by the fetch methods; chart data is keyed by days
ChartKey(days) == IF days = 7 THEN "chartData_7" ELSE "chartData_30"
CacheKeys == {"tokenHolders", "transactions", "poolData", "tokenStats",
              ChartKey(7), ChartKey(30)}

\* the instants at which the model observes the clock: around the start and
\* around the expiry of an entry stored near the start
Instants == {k * RETRY_DELAY : k \in 0..MaxEarly}
            \cup {CACHE_DURATION + k * RETRY_DELAY : k \in (-1)..MaxLate}

(***************************************************************************)
(* CacheStore: setCachedData / getCachedData / clearCache.                 *)
(***************************************************************************)
\* this.cache.set(key, { data, timestamp: Date.now() + ttl })
setCachedData(c, key, data, ttl, t) ==
    [c EXCEPT ![key] = [data |-> data, timestamp |-> t + ttl]]

getCachedValueLate(c, key, t) ==
    IF c[key] # NoEntry /\ t <= c[key].timestamp THEN c[key].data ELSE NoData

\* the value getCachedData returns
getCachedValue(c, key, t) ==
    IF c[key] # NoEntry /\ t < c[key].timestamp THEN c[key].data ELSE NoData

\* the store getCachedData leaves behind: an expired entry is deleted
getCachedStore(c, key, t) ==
    IF c[key] # NoEntry /\ ~(t < c[key].timestamp)
    THEN [c EXCEPT ![key] = NoEntry]
    ELSE c

clearCache(c) == [k \in DOMAIN c |-> NoEntry]

CacheInit ==
    /\ now = 0
    /\ cache = [k \in CacheKeys |-> NoEntry]
    /\ lastSet = [k \in CacheKeys |-> NoSet]
    /\ lastGet = [n |-> 0, key |-> Null, value |-> NoData]

(***************************************************************************)
(* RetryingFetcher: withRetry(operation, maxRetries).  A record holds the  *)
(* locals of one invocation; calls, delays, errors and returned are        *)
(* history fields.                                                         *)
(***************************************************************************)
RetryIdle ==
    [phase |-> "idle", maxRetries |-> 0, attempt |-> 0, lastError |-> NoError,
     wakeAt |-> 0, result |-> NoData, thrown |-> NoError,
     calls |-> 0, delays |-> <<>>, errors |-> <<>>, returned |-> NoData]

retryDelayLinear(attempt) == RETRY_DELAY * attempt

\* const delay = CONFIG.RETRY_DELAY * Math.pow(2, attempt - 1)
retryDelay(attempt) == RETRY_DELAY * 2^(attempt - 1)

\* new Error(`Operation failed after ${maxRetries} attempts: ${lastError.message}`)
wrapError(maxRetries, lastError) ==
    <<"Operation failed after attempts", maxRetries>> \o lastError

\* loop entry, attempt = 1: the first await operation()
withRetryStart(maxRetries) ==
    [RetryIdle EXCEPT !.phase = "running", !.maxRetries = maxRetries,
                      !.attempt = 1, !.calls = 1]

\* return await operation()
opSucceeded(r, value) ==
    [r EXCEPT !.phase = "resolved", !.result = value, !.returned = value]

opFailedKeepFirst(r, err, t) ==
    LET caught == [r EXCEPT !.lastError = IF @ = NoError THEN err ELSE @,
                            !.errors = Append(@, err)]
    IN  IF r.attempt < r.maxRetries
        THEN [caught EXCEPT !.phase = "waiting",
                            !.delays = Append(@, retryDelay(r.attempt)),
                            !.wakeAt = t + retryDelay(r.attempt)]
        ELSE [caught EXCEPT !.phase = "rejected",
                            !.thrown = wrapError(r.maxRetries, caught.lastError)]

\* catch (error): remember it, wait if attempts remain, else leave the loop
\* and throw the wrapped last error
opFailed(r, err, t) ==
    LET caught == [r EXCEPT !.lastError = err, !.errors = Append(@, err)]
    IN  IF r.attempt < r.maxRetries
        THEN [caught EXCEPT !.phase = "waiting",
                            !.delays = Append(@, retryDelay(r.attempt)),
                            !.wakeAt = t + retryDelay(r.attempt)]
        ELSE [caught EXCEPT !.phase = "rejected",
                            !.thrown = wrapError(r.maxRetries, caught.lastError)]

\* the setTimeout resolves: attempt++ and the next await operation()
timerFired(r) ==
    [r EXCEPT !.phase = "running", !.attempt = @ + 1, !.calls = @ + 1,
              !.wakeAt = 0]

RetryInit == retry = RetryIdle /\ retryStartedAt = 0

(***************************************************************************)
(* DataOrchestrator: the public fetch methods of BlockchainDataService.    *)
(* A call record holds the method, the withRetry invocation r wrapping its *)
(* derivation, prov (the provider request of the current attempt: "none",  *)
(* "pending", "ok" or "failed") and, for the fetchTokenHolders and         *)
(* fetchTransactions calls made inside a fetchTokenStats derivation, the   *)
(* parent call and its attempt.  stores is a history field.  The dataset   *)
(* derived by attempt n of call c has the id DataId(c, n).                 *)
(***************************************************************************)
ChartDays == {7, 30}
Method(name, days) == [name |-> name, days |-> days]
NoMethod == Method(Null, 0)
HoldersMethod == Method("fetchTokenHolders", 0)
TransactionsMethod == Method("fetchTransactions", 0)
StatsMethod == Method("fetchTokenStats", 0)
Methods == {HoldersMethod, TransactionsMethod, Method("fetchPoolData", 0), StatsMethod}
           \cup {Method("fetchChartData", d) : d \in ChartDays}

\* const cacheKey = ... of each fetch method
cacheKeyOf(m) ==
    CASE m.name = "fetchTokenHolders" -> "tokenHolders"
      [] m.name = "fetchTransactions" -> "transactions"
      [] m.name = "fetchPoolData" -> "poolData"
      [] m.name = "fetchTokenStats" -> "tokenStats"
      [] m.name = "fetchChartData" -> ChartKey(m.days)

CallIds == 1..MaxCalls
NoCall == [method |-> NoMethod, parent |-> 0, parentAttempt |-> 0,
           prov |-> "none", r |-> RetryIdle, stores |-> 0, rejects |-> 0]
DataId(c, attempt) == c * 10 + attempt
MadeBy(data) == data \div 10

UsedIds(cs) == {c \in CallIds : cs[c].method # NoMethod}
TopLevelIds(cs) == {c \in UsedIds(cs) : cs[c].parent = 0}

RECURSIVE SumRejects(_, _)
SumRejects(cs, n) == IF n = 0 THEN 0 ELSE cs[n].rejects + SumRejects(cs, n - 1)

\* the orchestrator state the operators below transform
World == [calls |-> calls, cache |-> cache, lastSet |-> lastSet]

fetchEnterNoCache(m, parent, parentAttempt, ca, t) ==
    [NoCall EXCEPT !.method = m, !.parent = parent,
                   !.parentAttempt = parentAttempt, !.prov = "pending",
                   !.r = withRetryStart(MAX_RETRIES)]

\* a fetch method up to its first await: return the cached dataset, or enter
\* withRetry and start the derivation
fetchEnter(m, parent, parentAttempt, ca, t) ==
    LET cached == getCachedValue(ca, cacheKeyOf(m), t)
    IN  IF cached # NoData
        THEN [NoCall EXCEPT !.method = m, !.parent = parent,
                            !.parentAttempt = parentAttempt,
                            !.r = [RetryIdle EXCEPT !.phase = "resolved",
                                                    !.result = cached]]
        ELSE [NoCall EXCEPT !.method = m, !.parent = parent,
                            !.parentAttempt = parentAttempt, !.prov = "pending",
                            !.r = withRetryStart(MAX_RETRIES)]

\* fetchTokenStats' operation: Promise.all([getTokenData(),
\* this.fetchTokenHolders(), this.fetchTransactions(), getRealTimeHolderData()])
\* starts the two nested calls in the next free slots
startNested(w, c, t) ==
    LET id == Cardinality(UsedIds(w.calls)) + 1
        attempt == w.calls[c].r.attempt
        ca1 == getCachedStore(w.cache, cacheKeyOf(HoldersMethod), t)
        ca2 == getCachedStore(ca1, cacheKeyOf(TransactionsMethod), t)
    IN  [w EXCEPT !.calls[id] = fetchEnter(HoldersMethod, c, attempt, w.cache, t),
                  !.calls[id + 1] = fetchEnter(TransactionsMethod, c, attempt, ca1, t),
                  !.cache = ca2]

\* slots the next attempt of a call of method m takes besides its own
NestedSlots(m) == IF m = StatsMethod THEN 2 ELSE 0

\* this.setCachedData(cacheKey, dataset); return dataset
store(w, c, t) ==
    LET k == cacheKeyOf(w.calls[c].method)
        d == DataId(c, w.calls[c].r.attempt)
    IN  [calls |-> [w.calls EXCEPT ![c].r = opSucceeded(@, d), ![c].prov = "ok",
                                   ![c].stores = @ + 1],
         cache |-> setCachedData(w.cache, k, d, CACHE_DURATION, t),
         lastSet |-> [w.lastSet EXCEPT ![k] = [data |-> d, at |-> t,
                                               ttl |-> CACHE_DURATION]]]

failServeStale(w, c, err, t) ==
    LET k == cacheKeyOf(w.calls[c].method)
        r == opFailed(w.calls[c].r, err, t)
    IN  IF r.phase = "rejected" /\ w.cache[k] # NoEntry
        THEN [w EXCEPT !.calls[c].r = [r EXCEPT !.phase = "resolved",
                                                !.result = w.cache[k].data],
                       !.calls[c].prov = "failed"]
        ELSE [w EXCEPT !.calls[c].r = r, !.calls[c].prov = "failed"]

\* the derivation of call c throws err: withRetry's catch branch
fail(w, c, err, t) ==
    [w EXCEPT !.calls[c].r = opFailed(@, err, t), !.calls[c].prov = "failed"]

\* call c is awaited by the current attempt of its parent's derivation
Awaited(w, c) ==
    LET p == w.calls[c].parent
    IN  /\ p # 0
        /\ w.calls[p].r.phase = "running"
        /\ w.calls[c].parentAttempt = w.calls[p].r.attempt

\* every promise of the Promise.all of stats call p has resolved
StatsReady(w, p) ==
    /\ w.calls[p].r.phase = "running"
    /\ w.calls[p].prov = "ok"
    /\ \A c \in CallIds :
          (w.calls[c].parent = p /\ w.calls[c].parentAttempt = w.calls[p].r.attempt)
              => w.calls[c].r.phase = "resolved"

\* the continuation of the parent's Promise.all once nested call c settled
notifyParent(w, c, t) ==
    LET p == w.calls[c].parent
    IN  IF ~Awaited(w, c) THEN w
        ELSE IF w.calls[c].r.phase = "rejected" THEN fail(w, p, w.calls[c].r.thrown, t)
        ELSE IF StatsReady(w, p) THEN store(w, p, t)
        ELSE w

OrchInit == calls = [c \in CallIds |-> NoCall]

(***************************************************************************)
(* ViewportController: the zoom and selection state of                     *)
(* ProfessionalChartEngine and its pointer handlers.  A fraction f is the  *)
(* integer f * Unit; factors are tenths.                                   *)
(***************************************************************************)
Min(a, b) == IF a < b THEN a ELSE b
Max(a, b) == IF a > b THEN a ELSE b
Abs(a) == IF a < 0 THEN -a ELSE a

FullView == [start |-> 0, end |-> Unit]
NoSelection == [start |-> -1, end |-> -1]     \* selection: null

\* x / rect.width
ratioOf(x) == (x * Unit) \div CanvasWidth

\* event.deltaY > 0 ? 1.1 : 0.9, in tenths
zoomFactor(deltaY) == IF deltaY > 0 THEN 11 ELSE 9

zoomChartNoClamp(z, factor, x) ==
    LET currentRange == z.end - z.start
        newRange == Max(Unit \div 100, Min(Unit, (currentRange * factor) \div 10))
        center == z.start + (currentRange * x) \div CanvasWidth
        newStart == Max(0, center - newRange \div 2)
    IN  [start |-> newStart, end |-> newStart + newRange]

\* zoomChart(factor, centerRatio) with centerRatio = x / rect.width
zoomChart(z, factor, x) ==
    LET currentRange == z.end - z.start
        newRange == Max(Unit \div 100, Min(Unit, (currentRange * factor) \div 10))
        center == z.start + (currentRange * x) \div CanvasWidth
        newStart == Max(0, center - newRange \div 2)
        newEnd == Min(Unit, newStart + newRange)
    IN  [start |-> newStart, end |-> newEnd]

\* startSelection: { start: ratio, end: ratio }
startSelection(x) == [start |-> ratioOf(x), end |-> ratioOf(x)]

endSelectionUnsorted(z, sel, x) ==
    LET ended == [sel EXCEPT !.end = ratioOf(x)]
        selectionSize == Abs(ended.end - ended.start)
    IN  IF 20 * selectionSize > Unit THEN ended ELSE z

\* endSelection: the zoom it leaves, given the selection in progress
endSelection(z, sel, x) ==
    LET ended == [sel EXCEPT !.end = ratioOf(x)]
        selectionSize == Abs(ended.end - ended.start)
    IN  IF 20 * selectionSize > Unit
        THEN [start |-> Min(ended.start, ended.end),
              end |-> Max(ended.start, ended.end)]
        ELSE z

ViewInit ==
    /\ zoom = FullView
    /\ selection = NoSelection
    /\ lastOp = [n |-> 0, op |-> Null, x |-> 0]

(***************************************************************************)
(* MarketDataProvider: DexScreenerService.getTokenData and its one-entry   *)
(* cache.  A snapshot is live (built from the response of call id at time  *)
(* at) or the zero-valued fallback.  A call record holds the position of   *)
(* one invocation; response, cachedAt and served are history fields.       *)
(***************************************************************************)
NoSnapshot == [kind |-> "none", id |-> 0, at |-> -1]
LiveSnapshot(c, t) == [kind |-> "live", id |-> c, at |-> t]
FallbackSnapshot(t) == [kind |-> "fallback", id |-> 0, at |-> t]
NoProvEntry == [data |-> NoSnapshot, timestamp |-> -1]

\* response.ok with pairs; !response.ok; no pairs; response.json() throws;
\* fetch rejects
Responses == {"ok", "non2xx", "empty", "malformed", "unreachable"}
FailedResponses == Responses \ {"ok"}

ProvCallIds == 1..MaxProvCalls
NoProvCall == [phase |-> "idle", result |-> NoSnapshot, response |-> "none",
               cachedAt |-> -1, served |-> "none", at |-> -1]

\* the cached branch of getTokenData
provFresh(pc, t) == pc # NoProvEntry /\ t - pc.timestamp < PROVIDER_CACHE_DURATION

\* getTokenData up to its first await
getTokenDataEnter(pc, t) ==
    IF provFresh(pc, t)
    THEN [NoProvCall EXCEPT !.phase = "returned", !.result = pc.data,
                            !.served = "cache", !.cachedAt = pc.timestamp, !.at = t]
    ELSE [NoProvCall EXCEPT !.phase = "fetching"]

\* getTokenData after the response: the try block on "ok", else the catch
\* block.  The result is <<call record, cache entry>>.
getTokenDataResume(pc, c, resp, t) ==
    IF resp = "ok"
    THEN <<[NoProvCall EXCEPT !.phase = "returned", !.result = LiveSnapshot(c, t),
                              !.response = resp, !.served = "live", !.at = t],
           [data |-> LiveSnapshot(c, t), timestamp |-> t]>>
    ELSE IF pc # NoProvEntry
    THEN <<[NoProvCall EXCEPT !.phase = "returned", !.result = pc.data,
                              !.response = resp, !.served = "stale",
                              !.cachedAt = pc.timestamp, !.at = t], pc>>
    ELSE <<[NoProvCall EXCEPT !.phase = "returned", !.result = FallbackSnapshot(t),
                              !.response = resp, !.served = "fallback", !.at = t], pc>>

ProvInit ==
    /\ provCache = NoProvEntry
    /\ provCalls = [c \in ProvCallIds |-> NoProvCall]

(***************************************************************************)
(* PollingHook: useTokenData.  hook is the React state of the component.   *)
(* A dataset field holds the id of the refresh whose result it shows (0:   *)
(* the initial empty value).  A refresh record holds the locals of one     *)
(* fetchData invocation: rc is the retryCount its closure captured,        *)
(* aborted its signal, timer the deadline of its retry setTimeout (-1:     *)
(* none).                                                                  *)
(***************************************************************************)
hookMaxRetries == 3
POLL_INTERVAL == 60000
REQUEST_TIMEOUT == 30000
MAX_RETRY_DELAY == 10000

HookInitial ==
    [holders |-> 0, transactions |-> 0, poolData |-> 0, stats |-> 0,
     priceData |-> 0, volumeData |-> 0, holderData |-> 0, whaleData |-> 0,
     isLoading |-> TRUE, error |-> NoError, connectionStatus |-> "connecting",
     lastUpdate |-> -1, retryCount |-> 0]

ReqIds == 1..Max(MaxReqs, MaxOutageReqs)
NoReq == [phase |-> "none", isRetry |-> FALSE, rc |-> 0, aborted |-> FALSE,
          startedAt |-> -1, timer |-> -1]

Done(q) == q.phase \in {"resolved", "rejected"}
NextReq(rs) == CHOOSE r \in ReqIds :
                   rs[r].phase = "none" /\ \A d \in ReqIds : d < r => rs[d].phase # "none"
CanStart(rs) ==
    \E r \in 1..(IF outage THEN MaxOutageReqs ELSE MaxReqs) : rs[r].phase = "none"

abortCurrentNever(rs, ctl) == rs

\* abortControllerRef.current.abort(), if there is a controller
abortCurrent(rs, ctl) ==
    IF ctl = 0 THEN rs ELSE [rs EXCEPT ![ctl].aborted = TRUE]

HookWorld == [hook |-> hook, reqs |-> reqs, controller |-> controller]

\* fetchData(isRetry) of the closure that captured retryCount = rc, up to
\* its await
fetchData(w, rc, isRetry, t) ==
    LET n == NextReq(w.reqs)
        h1 == [w.hook EXCEPT !.isLoading = TRUE, !.connectionStatus = "connecting"]
        h2 == IF isRetry THEN h1 ELSE [h1 EXCEPT !.error = NoError, !.retryCount = 0]
    IN [hook |-> h2,
        reqs |-> [abortCurrent(w.reqs, w.controller) EXCEPT
                     ![n] = [NoReq EXCEPT !.phase = "pending", !.isRetry = isRetry,
                                          !.rc = rc, !.startedAt = t]],
        controller |-> n]

\* the try block after the await resolved with valid data, and finally
fetchResolved(w, r, t) ==
    [w EXCEPT !.hook = [w.hook EXCEPT
                           !.holders = r, !.transactions = r, !.poolData = r,
                           !.stats = r, !.priceData = r, !.volumeData = r,
                           !.holderData = r, !.whaleData = r,
                           !.connectionStatus = "connected", !.lastUpdate = t,
                           !.error = NoError, !.retryCount = 0, !.isLoading = FALSE],
              !.reqs = [w.reqs EXCEPT ![r].phase = "resolved"]]

\* an error is <<message, the word of the message that the retry test finds
\* ("none" when it finds neither of them)>>
RetriableWords == {"timeout", "network", "fetch"}
isRetriableError(err) == err[2] \in RetriableWords
TimeoutError == <<"Request timeout", "timeout">>
InvalidStatsError == <<"Operation failed after 3 attempts: Invalid calculated token stats", "none">>

hookRetryDelay(rc) == Min(1000 * 2^rc, MAX_RETRY_DELAY)

fetchRejectedClears(w, r, err, t) ==
    [w EXCEPT !.hook = [w.hook EXCEPT !.connectionStatus = "disconnected",
                                      !.isLoading = FALSE, !.error = <<err[1]>>,
                                      !.holders = 0, !.stats = 0],
              !.reqs = [w.reqs EXCEPT ![r].phase = "rejected"]]

\* the catch block, and finally
fetchRejected(w, r, err, t) ==
    LET q == w.reqs[r]
        h1 == [w.hook EXCEPT !.connectionStatus = "disconnected", !.isLoading = FALSE]
        q1 == [q EXCEPT !.phase = "rejected"]
    IN IF q.rc < hookMaxRetries /\ ~q.aborted /\ isRetriableError(err)
       THEN [w EXCEPT
                !.hook = [h1 EXCEPT !.retryCount = @ + 1,
                                    !.error = <<"Connection failed. Retrying",
                                                hookRetryDelay(q.rc), q.rc + 1>>],
                !.reqs = [w.reqs EXCEPT ![r] = [q1 EXCEPT !.timer = t + hookRetryDelay(q.rc)]]]
       ELSE [w EXCEPT
                !.hook = [h1 EXCEPT !.error =
                             IF q.rc >= hookMaxRetries
                             THEN <<err[1], "(Max retries exceeded)">>
                             ELSE <<err[1]>>],
                !.reqs = [w.reqs EXCEPT ![r] = q1]]

HookInit ==
    /\ hook = HookInitial
    /\ reqs = [r \in ReqIds |-> NoReq]
    /\ controller = 0
    /\ mounted = "no"
    /\ effectRc = 0
    /\ nextPoll = -1
    /\ caller = "none"
    /\ outage = FALSE

(***************************************************************************)
(* ChartLifecycle: the data, the animation frame, the resize observer and  *)
(* the listeners of one ProfessionalChartEngine.  A dataset is the id of   *)
(* the loadData invocation that fetched it and its length (id 0: the empty *)
(* array of the constructor).  raf.handle is animationFrame ("null" or     *)
(* "set"), raf.pending the number of callbacks the browser still holds and *)
(* raf.live whether animationFrame names one of them.                      *)
(***************************************************************************)
Dataset(id, len) == [id |-> id, len |-> len]
EmptyData == Dataset(0, 0)
ChartInitial == [data |-> EmptyData, loading |-> FALSE, error |-> Null, lastUpdate |-> 0]
NoFrame == [handle |-> "null", live |-> FALSE, pending |-> 0]

Timeframes == {"1h", "1d"}
LoadIds == 1..MaxLoads
NoLoad == [phase |-> "none", timeframe |-> Null, thrown |-> NoError]   \* thrown: history

renderNoCancel(f) == [handle |-> "set", live |-> TRUE, pending |-> f.pending + 1]

\* render(): cancel the frame animationFrame names, request a new one
render(f) ==
    LET kept == IF f.handle # "null" /\ f.live THEN f.pending - 1 ELSE f.pending
    IN [handle |-> "set", live |-> TRUE, pending |-> kept + 1]

\* the callback of requestAnimationFrame runs; it draws and leaves
\* animationFrame as it is
frameRuns(f, named) ==
    [f EXCEPT !.pending = @ - 1, !.live = IF named THEN FALSE ELSE @]

\* the cancelAnimationFrame of destroy()
cancelFrame(f) ==
    IF f.handle # "null" /\ f.live THEN [f EXCEPT !.pending = @ - 1, !.live = FALSE] ELSE f

\* calculateZoomBounds()
calculateZoomBounds(z, data) == IF data.len = 0 THEN z ELSE FullView

\* loadData up to its first await
loadDataEnter(c) == [c EXCEPT !.loading = TRUE, !.error = Null]

\* loadData: the try block after the awaits, and finally
loadDataResolved(c, data, t) ==
    [c EXCEPT !.data = data, !.lastUpdate = t, !.loading = FALSE]

\* a thrown value is <<"Error", message>> or <<"other", value>>
errorMessage(thrown) == IF thrown[1] = "Error" THEN thrown[2] ELSE "Unknown error"

loadDataRejectedClears(c, thrown) ==
    [c EXCEPT !.error = errorMessage(thrown), !.loading = FALSE, !.data = EmptyData]

\* loadData: the catch block, and finally
loadDataRejected(c, thrown) ==
    [c EXCEPT !.error = errorMessage(thrown), !.loading = FALSE]

ChartInit ==
    /\ chart = ChartInitial
    /\ loads = [l \in LoadIds |-> NoLoad]
    /\ raf = NoFrame
    /\ observing = TRUE
    /\ listening = TRUE
    /\ destroyed = FALSE

(***************************************************************************)
(* JavaScript numbers, as far as the derivations need them: NaN, or        *)
(* (num / den) * 10^(200 * exp) with num / den in lowest terms, den > 0    *)
(* and exp in -1..1.  A double holds magnitudes from about 1e-323 to 1e308:*)
(* a result scaled by 10^400 or more is Infinity (exp 2) and one scaled by *)
(* 10^-400 or less has underflowed to 0.                                   *)
(***************************************************************************)
RECURSIVE GCD(_, _)
GCD(a, b) == IF b = 0 THEN a ELSE GCD(b, a % b)

NaN == [nan |-> TRUE, num |-> 0, den |-> 1, exp |-> 0]
\* (n / d) * 10^(200 * e) as a double
Scaled(n, d, e) ==
    LET g == GCD(Abs(n), Abs(d))
        sgn == IF d < 0 THEN -1 ELSE 1
        sign == IF n * sgn > 0 THEN 1 ELSE -1
    IN IF n = 0 \/ e <= -2 THEN [nan |-> FALSE, num |-> 0, den |-> 1, exp |-> 0]
       ELSE IF e >= 2 THEN [nan |-> FALSE, num |-> sign, den |-> 1, exp |-> 2]
       ELSE [nan |-> FALSE, num |-> sgn * (n \div g), den |-> sgn * (d \div g), exp |-> e]
R(n, d) == Scaled(n, d, 0)
Num(n) == R(n, 1)
Tiny == Scaled(1, 1, -1)     \* 1e-200
Huge == Scaled(1, 1, 1)      \* 1e200

Sign(a) == IF a.num > 0 THEN 1 ELSE IF a.num < 0 THEN -1 ELSE 0
\* a < b for numbers that are not NaN
Less(a, b) ==
    IF Sign(a) # Sign(b) THEN Sign(a) < Sign(b)
    ELSE IF Sign(a) = 0 THEN FALSE
    ELSE IF a.exp # b.exp THEN (IF Sign(a) > 0 THEN a.exp < b.exp ELSE a.exp > b.exp)
    ELSE a.num * b.den < b.num * a.den

\* a > b, a <= b: false when an operand is NaN
Gt(a, b) == ~a.nan /\ ~b.nan /\ Less(b, a)
Le(a, b) == ~a.nan /\ ~b.nan /\ ~Less(b, a)
\* a * b, a / b (b # 0), a + b
Mul(a, b) ==
    IF a.nan \/ b.nan THEN NaN
    ELSE Scaled(a.num * b.num, a.den * b.den, a.exp + b.exp)
Div(a, b) ==
    IF a.nan \/ b.nan THEN NaN
    ELSE Scaled(a.num * b.den, a.den * b.num, a.exp - b.exp)
Add(a, b) ==
    IF a.nan \/ b.nan THEN NaN
    ELSE IF a.exp = b.exp
         THEN Scaled(a.num * b.den + b.num * a.den, a.den * b.den, a.exp)
    ELSE IF Sign(a) = 0 THEN b
    ELSE IF Sign(b) = 0 THEN a
    ELSE IF a.exp > b.exp THEN a ELSE b

(***************************************************************************)
(* Derivations of BlockchainDataService from one TokenData snapshot:       *)
(* the supply statistics of fetchTokenStats and the transactions of        *)
(* generateRealisticTransactions.  The list of transactions is kept as its *)
(* length and the set of its distinct elements; base is the value of       *)
(* Math.random() * 10000 + 100 of an element.                              *)
(***************************************************************************)
NoDex == [price |-> NaN, marketCap |-> NaN, volume24h |-> NaN, txns24h |-> -1]
NoStats == [totalSupply |-> NaN, circulatingSupply |-> NaN, price |-> NaN,
            marketCap |-> NaN, volume24h |-> NaN, transactions24h |-> -1]
NoTransactions == [count |-> -1, elems |-> {}]

totalSupplyFallbackOnPriceOnly(d) ==
    IF Gt(d.price, Num(0)) THEN Div(d.marketCap, d.price) ELSE Num(FALLBACK_SUPPLY)

\* const totalSupply = marketCap > 0 && price > 0 ? marketCap / price : 100000000
totalSupply(d) ==
    IF Gt(d.marketCap, Num(0)) /\ Gt(d.price, Num(0))
    THEN Div(d.marketCap, d.price)
    ELSE Num(FALLBACK_SUPPLY)

\* totalSupply * 0.95
circulatingSupply(total) == Mul(total, R(95, 100))

\* the stats object of fetchTokenStats (the fields derived from the snapshot)
\* if (stats.totalSupply <= 0) throw: the caller gets no stats
statsInvalid(st) == Le(st.totalSupply, Num(0))
tokenStats(d) ==
    [totalSupply |-> totalSupply(d),
     circulatingSupply |-> circulatingSupply(totalSupply(d)),
     price |-> d.price, marketCap |-> d.marketCap, volume24h |-> d.volume24h,
     transactions24h |-> d.txns24h]

isLargeTransferOrEqual(amount, d) == Le(Div(d.volume24h, Num(100)), amount)

\* amount > dexData.volume24h / 100
isLargeTransfer(amount, d) == Gt(amount, Div(d.volume24h, Num(100)))

\* one element pushed by the loop of generateRealisticTransactions
transactionOf(base, d) ==
    LET amount == Mul(Num(base), d.price)
    IN [amount |-> amount, isLargeTransfer |-> isLargeTransfer(amount, d)]

\* Math.min(Math.max(50, txns24h || 50), 100)
transactionCount(d) ==
    Min(Max(MIN_TX_COUNT, IF d.txns24h = 0 THEN MIN_TX_COUNT ELSE d.txns24h), MAX_TX_COUNT)

generateRealisticTransactions(d, bases) ==
    [count |-> transactionCount(d), elems |-> {transactionOf(b, d) : b \in bases}]

DeriveInit ==
    /\ dex = NoDex
    /\ stats = NoStats
    /\ transactions = NoTransactions

(***************************************************************************)
(* Candles: the simple moving average of ProfessionalChartEngine and the   *)
(* colours the two candlestick painters give each candle.  Array indices   *)
(* are 0-based as in the source; element i of an array a is a[i + 1].      *)
(***************************************************************************)
UP_BODY == "#00D4AA"
DOWN_BODY == "#FF4757"
UP_WICK == "#00A085"
DOWN_WICK == "#CC3A47"

Candle(open, close) == [open |-> Num(open), close |-> Num(close)]
NoSMA == [period |-> 0, values |-> <<>>]

Floor(r) == r.num \div r.den
Ceil(r) == -((-r.num) \div r.den)

\* Array.prototype.slice(start, end)
slice(a, start, end) ==
    LET len == Len(a)
        from == IF start < 0 THEN Max(len + start, 0) ELSE Min(start, len)
        to == IF end < 0 THEN Max(len + end, 0) ELSE Min(end, len)
    IN SubSeq(a, from + 1, to)

\* .reduce((acc, point) => acc + point.close, 0)
RECURSIVE sumClose(_)
sumClose(a) ==
    IF a = <<>> THEN Num(0)
    ELSE Add(sumClose(SubSeq(a, 1, Len(a) - 1)), a[Len(a)].close)

calculateSMAPadsPeriod(data, period) ==
    [k \in 1..Len(data) |->
        LET i == k - 1
        IN IF i < period
           THEN NaN
           ELSE Div(sumClose(slice(data, i - period + 1, i + 1)), Num(period))]

calculateSMA(data, period) ==
    [k \in 1..Len(data) |->
        LET i == k - 1
        IN IF i < period - 1
           THEN NaN
           ELSE Div(sumClose(slice(data, i - period + 1, i + 1)), Num(period))]

\* getVisibleData(): the candles inside the zoom window, with their indices
getVisibleData(data, z) ==
    LET startIndex == Floor(Mul(Num(Len(data)), z.start))
        endIndex == Ceil(Mul(Num(Len(data)), z.end))
        from == Min(Max(startIndex, 0), Len(data))
        to == Min(Max(endIndex, 0), Len(data))
    IN [k \in 1..Max(to - from, 0) |-> from + k - 1]

isGreenOrEqual(candle) == ~Gt(candle.open, candle.close)

\* const isGreen = candle.close > candle.open
isGreen(candle) == Gt(candle.close, candle.open)

\* drawCandlesticks: body and wick colour of every visible candle
drawCandlesticks(data, z) ==
    LET visible == getVisibleData(data, z)
    IN [k \in 1..Len(visible) |->
           [index |-> visible[k],
            body |-> IF isGreen(data[visible[k] + 1]) THEN UP_BODY ELSE DOWN_BODY,
            wick |-> IF isGreen(data[visible[k] + 1]) THEN UP_WICK ELSE DOWN_WICK]]

\* drawCandlestickChart: one colour for body and wick of every candle
drawCandlestickChart(data) ==
    [k \in 1..Len(data) |->
        LET bodyColor == IF isGreen(data[k]) THEN UP_BODY ELSE DOWN_BODY
        IN [index |-> k - 1, body |-> bodyColor, wick |-> bodyColor]]

CandleInit ==
    /\ candles = <<>>
    /\ sma = NoSMA
    /\ engineDrawn = <<>>
    /\ quantlinkDrawn = <<>>

(***************************************************************************)
(* Holders: generateRealisticHolders of BlockchainDataService.  The list   *)
(* is kept as the kind of each element, in order.                          *)
(***************************************************************************)
NoHolderData == [totalHolders |-> -1, topHolders |-> 0]

\* one push per top holder, then one per i < Math.min(remainingHolders, 50)
generateRealisticHolders(hd) ==
    LET remainingHolders == Max(0, hd.totalHolders - hd.topHolders)
        added == Min(remainingHolders, MAX_SMALL_HOLDERS)
    IN [i \in 1..(hd.topHolders + added) |->
           IF i <= hd.topHolders THEN "top" ELSE "small"]

HolderInit ==
    /\ holderData = NoHolderData
    /\ holders = <<>>

(***************************************************************************)
(* RateLimiter: SecurityService.checkRateLimit and cleanupRateLimits.      *)
(***************************************************************************)
Identifiers == {"user-1", "user-2"}
NoRateEntry == [count |-> 0, resetTime |-> -1, blocked |-> FALSE]
NoResetTime == -1                                \* resetTime: undefined

checkRateLimitOnEqual(m, identifier, t) ==
    LET entry == m[identifier]
    IN IF entry = NoRateEntry \/ t > entry.resetTime
       THEN <<[m EXCEPT ![identifier] =
                  [count |-> 1, resetTime |-> t + RATE_WINDOW, blocked |-> FALSE]],
              [allowed |-> TRUE, resetTime |-> NoResetTime]>>
       ELSE IF entry.count + 1 >= MAX_REQUESTS_PER_MINUTE
       THEN <<[m EXCEPT ![identifier].count = @ + 1, ![identifier].blocked = TRUE],
              [allowed |-> FALSE, resetTime |-> entry.resetTime]>>
       ELSE <<[m EXCEPT ![identifier].count = @ + 1],
              [allowed |-> TRUE, resetTime |-> NoResetTime]>>

\* checkRateLimit(identifier) at Date.now() = t: <<the map, the result>>
checkRateLimit(m, identifier, t) ==
    LET entry == m[identifier]
    IN IF entry = NoRateEntry
       THEN <<[m EXCEPT ![identifier] =
                  [count |-> 1, resetTime |-> t + RATE_WINDOW, blocked |-> FALSE]],
              [allowed |-> TRUE, resetTime |-> NoResetTime]>>
       ELSE IF t > entry.resetTime
       THEN <<[m EXCEPT ![identifier] =
                  [count |-> 1, resetTime |-> t + RATE_WINDOW, blocked |-> FALSE]],
              [allowed |-> TRUE, resetTime |-> NoResetTime]>>
       ELSE IF entry.count + 1 > MAX_REQUESTS_PER_MINUTE
       THEN <<[m EXCEPT ![identifier].count = @ + 1, ![identifier].blocked = TRUE],
              [allowed |-> FALSE, resetTime |-> entry.resetTime]>>
       ELSE <<[m EXCEPT ![identifier].count = @ + 1],
              [allowed |-> TRUE, resetTime |-> NoResetTime]>>

cleanupRateLimits(m, t) ==
    [i \in DOMAIN m |->
        IF m[i] # NoRateEntry /\ t > m[i].resetTime + RATE_ENTRY_MAX_AGE
        THEN NoRateEntry ELSE m[i]]

RateInit ==
    /\ rateLimitMap = [i \in Identifiers |-> NoRateEntry]
    /\ rateWindow = [i \in Identifiers |-> [start |-> -1, calls |-> 0]]
    /\ lastCheck = [n |-> 0, identifier |-> Null, at |-> -1,
                    result |-> [allowed |-> TRUE, resetTime |-> NoResetTime]]

InitAll ==
    /\ RateInit /\ HolderInit /\ DeriveInit /\ CandleInit
    /\ CacheInit /\ RetryInit /\ OrchInit /\ ViewInit /\ ProvInit /\ HookInit
    /\ ChartInit

(***************************************************************************)
(* SpecCache: the cache operations applied directly, with varying ttl.     *)
(***************************************************************************)
StoreKeys == {"tokenHolders", ChartKey(7)}
StoreValues == {1, 2}
StoreTtls == {CACHE_DURATION, RETRY_DELAY}

notCache == <<retryVars, orchVars, viewVars, provVars, hookVars, chartVars, rateVars, deriveVars, candleVars, holderVars>>

CacheSet(key, data, ttl) ==
    /\ cache' = setCachedData(cache, key, data, ttl, now)
    /\ lastSet' = [lastSet EXCEPT ![key] = [data |-> data, at |-> now, ttl |-> ttl]]
    /\ UNCHANGED <<now, lastGet>>
    /\ UNCHANGED notCache

CacheGet(key) ==
    /\ lastGet' = [n |-> 1 - lastGet.n, key |-> key,
                   value |-> getCachedValue(cache, key, now)]
    /\ cache' = getCachedStore(cache, key, now)
    /\ UNCHANGED <<now, lastSet>>
    /\ UNCHANGED notCache

CacheClear ==
    /\ cache' = clearCache(cache)
    /\ lastSet' = [k \in CacheKeys |-> NoSet]
    /\ UNCHANGED <<now, lastGet>>
    /\ UNCHANGED notCache

CacheTick(t) ==
    /\ t > now
    /\ now' = t
    /\ UNCHANGED <<cache, lastSet, lastGet>>
    /\ UNCHANGED notCache

NextCache ==
    \/ \E k \in StoreKeys, v \in StoreValues, ttl \in StoreTtls : CacheSet(k, v, ttl)
    \/ \E k \in StoreKeys : CacheGet(k)
    \/ CacheClear
    \/ \E t \in Instants : CacheTick(t)

SpecCache == InitAll /\ [][NextCache]_vars

\* C3: a getCachedData(k) made strictly before t + ttl of the latest
\* setCachedData(k, v, ttl) at time t returns v; one made at or after t + ttl
\* (or with nothing stored) returns null and leaves no entry for k.
CacheTtl ==
    [][lastGet'.n # lastGet.n =>
         LET k == lastGet'.key
         IN  IF lastSet[k] # NoSet /\ now < lastSet[k].at + lastSet[k].ttl
             THEN lastGet'.value = lastSet[k].data
             ELSE lastGet'.value = NoData /\ cache'[k] = NoEntry]_vars

\* a get exactly at t + ttl returned null and removed the entry
WitnessCacheTtl ==
    \E k \in StoreKeys :
        /\ lastGet.key = k /\ lastGet.value = NoData
        /\ lastSet[k] # NoSet /\ lastSet[k].ttl = CACHE_DURATION
        /\ now = lastSet[k].at + lastSet[k].ttl
        /\ cache[k] = NoEntry

(***************************************************************************)
(* SpecRetry: one withRetry invocation around an operation that fails or   *)
(* succeeds at will.                                                       *)
(***************************************************************************)
OpErrors == {<<"Network error">>, <<"Request timeout">>}
OpValues == {1, 2}

notRetry == <<cache, lastSet, lastGet, orchVars, viewVars, provVars, hookVars, chartVars, rateVars, deriveVars, candleVars, holderVars>>

RetryCall(maxRetries) ==
    /\ retry.phase = "idle"
    /\ retry' = withRetryStart(maxRetries)
    /\ retryStartedAt' = now
    /\ UNCHANGED now /\ UNCHANGED notRetry

RetryOpResolves(value) ==
    /\ retry.phase = "running"
    /\ retry' = opSucceeded(retry, value)
    /\ UNCHANGED <<now, retryStartedAt>> /\ UNCHANGED notRetry

RetryOpRejects(err) ==
    /\ retry.phase = "running"
    /\ retry' = opFailed(retry, err, now)
    /\ UNCHANGED <<now, retryStartedAt>> /\ UNCHANGED notRetry

RetryTimer ==
    /\ retry.phase = "waiting"
    /\ now >= retry.wakeAt
    /\ retry' = timerFired(retry)
    /\ UNCHANGED <<now, retryStartedAt>> /\ UNCHANGED notRetry

RetryTick(t) ==
    /\ t > now
    /\ now' = t
    /\ UNCHANGED <<retry, retryStartedAt>> /\ UNCHANGED notRetry

NextRetry ==
    \/ \E m \in 1..MaxAttempts : RetryCall(m)
    \/ \E v \in OpValues : RetryOpResolves(v)
    \/ \E e \in OpErrors : RetryOpRejects(e)
    \/ RetryTimer
    \/ \E t \in Instants : RetryTick(t)

SpecRetry == InitAll /\ [][NextRetry]_vars

RECURSIVE SumSeq(_)
SumSeq(q) == IF q = <<>> THEN 0 ELSE Head(q) + SumSeq(Tail(q))

\* C4: when the operation fails its first k invocations (k < maxRetries) and
\* then succeeds, withRetry has invoked it exactly k + 1 times, has waited
\* RETRY_DELAY * 2^(i-1) after the i-th failure (in total RETRY_DELAY *
\* (2^k - 1), all of it elapsed), and resolves with the operation's value.
RetryBackoff ==
    retry.phase = "resolved" =>
        LET k == Len(retry.errors)
        IN  /\ k < retry.maxRetries
            /\ retry.calls = k + 1
            /\ retry.delays = [i \in 1..k |-> RETRY_DELAY * 2^(i - 1)]
            /\ SumSeq(retry.delays) = RETRY_DELAY * (2^k - 1)
            /\ now >= retryStartedAt + SumSeq(retry.delays)
            /\ retry.result = retry.returned /\ retry.result \in OpValues

\* withRetry(op, 4) resolved after three failures (waits of 1 s, 2 s, 4 s),
\* and withRetry(op, 3) after two
WitnessRetryBackoff ==
    /\ retry.phase = "resolved"
    /\ retry.maxRetries = Len(retry.errors) + 1
    /\ Len(retry.errors) >= 2

\* C5: when every invocation fails, the operation is invoked exactly
\* maxRetries times, never more, and withRetry throws an error wrapping the
\* error of the last invocation.
RetryExhausted ==
    /\ retry.calls <= retry.maxRetries
    /\ retry.phase = "rejected" =>
           /\ retry.calls = retry.maxRetries
           /\ Len(retry.errors) = retry.maxRetries
           /\ retry.thrown = <<"Operation failed after attempts", retry.maxRetries>>
                               \o retry.errors[retry.maxRetries]

\* exhausted after three failures whose first and last errors differ
WitnessRetryExhausted ==
    /\ retry.phase = "rejected"
    /\ retry.maxRetries = MAX_RETRIES
    /\ retry.errors[1] # retry.errors[MAX_RETRIES]

(***************************************************************************)
(* SpecOrch: callers invoke the fetch methods at any time; the provider    *)
(* requests of the derivations resolve or reject in any order.             *)
(***************************************************************************)
OrchErrors == {<<"Network error">>}

\* two logically-concurrent callers, each calling one fetch method once
Callers == {"A", "B"}

\* the instants observed: the start, one backoff delay later, and the expiry
\* of an entry stored at the start (an entry stored at 1 s is then 29 s old)
OrchInstants == {0, RETRY_DELAY, CACHE_DURATION}

notOrch == <<lastGet, retryVars, viewVars, provVars, hookVars, chartVars, rateVars, deriveVars, candleVars, holderVars>>

Becomes(w) ==
    /\ calls' = w.calls
    /\ cache' = w.cache
    /\ lastSet' = w.lastSet

\* a caller invokes blockchainDataService.<m>()
StartCall(m) ==
    LET id == Cardinality(UsedIds(calls)) + 1
        entered == fetchEnter(m, 0, 0, cache, now)
        miss == entered.prov = "pending"
    IN  /\ Cardinality(TopLevelIds(calls)) < Cardinality(Callers)
        /\ id + (IF miss THEN NestedSlots(m) ELSE 0) <= MaxCalls
        /\ LET w == [World EXCEPT !.calls[id] = entered,
                                  !.cache = getCachedStore(cache, cacheKeyOf(m), now)]
           IN  Becomes(IF miss /\ m = StatsMethod THEN startNested(w, id, now) ELSE w)
        /\ UNCHANGED now /\ UNCHANGED notOrch

\* the provider request of call c's current attempt resolves
ProviderResolves(c) ==
    /\ calls[c].r.phase = "running" /\ calls[c].prov = "pending"
    /\ IF calls[c].method = StatsMethod
       THEN LET w == [World EXCEPT !.calls[c].prov = "ok"]
            IN  Becomes(IF StatsReady(w, c) THEN store(w, c, now) ELSE w)
       ELSE Becomes(notifyParent(store(World, c, now), c, now))
    /\ UNCHANGED now /\ UNCHANGED notOrch

\* the provider request of call c's current attempt rejects
ProviderRejects(c, err) ==
    /\ calls[c].r.phase = "running" /\ calls[c].prov = "pending"
    /\ SumRejects(calls, MaxCalls) < MaxFailures
    /\ Becomes(notifyParent(fail([World EXCEPT !.calls[c].rejects = @ + 1],
                                 c, err, now), c, now))
    /\ UNCHANGED now /\ UNCHANGED notOrch

\* the backoff timer of call c fires and the derivation is attempted again
RetryWake(c) ==
    /\ calls[c].r.phase = "waiting"
    /\ now >= calls[c].r.wakeAt
    /\ Cardinality(UsedIds(calls)) + NestedSlots(calls[c].method) <= MaxCalls
    /\ LET w == [World EXCEPT !.calls[c].r = timerFired(@), !.calls[c].prov = "pending"]
       IN  Becomes(IF calls[c].method = StatsMethod THEN startNested(w, c, now) ELSE w)
    /\ UNCHANGED now /\ UNCHANGED notOrch

OrchTick(t) ==
    /\ t > now
    /\ now' = t
    /\ UNCHANGED <<cache, lastSet, calls>> /\ UNCHANGED notOrch

NextOrch ==
    \/ \E m \in Methods : StartCall(m)
    \/ \E c \in CallIds : ProviderResolves(c)
    \/ \E c \in CallIds, e \in OrchErrors : ProviderRejects(c, e)
    \/ \E c \in CallIds : RetryWake(c)
    \/ \E t \in OrchInstants : OrchTick(t)

SpecOrch == InitAll /\ [][NextOrch]_vars

\* the calls whose derivation for cache key k is awaiting the provider
Outstanding(k) ==
    {c \in CallIds : /\ calls[c].method # NoMethod
                     /\ cacheKeyOf(calls[c].method) = k
                     /\ calls[c].r.phase = "running"
                     /\ calls[c].prov = "pending"}

\* C2: for every cache key, at most one provider request for that key is
\* outstanding at any time.
NoDuplicateRequests ==
    \A k \in CacheKeys : Cardinality(Outstanding(k)) <= 1

\* C8: a call of a fetch method started less than CACHE_DURATION after the
\* latest store made by a call of the same method (same days for chart data)
\* returns that stored dataset without invoking the provider; and a call
\* never resolves with a dataset derived for another method or days.
FetchCaching ==
    /\ [](\A c \in CallIds :
             calls[c].r.phase = "resolved" =>
                 calls[MadeBy(calls[c].r.result)].method = calls[c].method)
    /\ [][\A c \in CallIds, k \in CacheKeys :
             (/\ calls[c].method = NoMethod /\ calls'[c].method # NoMethod
              /\ lastSet[k] # NoSet
              /\ calls[MadeBy(lastSet[k].data)].method = calls'[c].method
              /\ now < lastSet[k].at + CACHE_DURATION)
             => /\ calls'[c].r.phase = "resolved"
                /\ calls'[c].r.result = lastSet[k].data
                /\ calls'[c].r.calls = 0
                /\ calls'[c].prov = "none"]_vars

\* a second fetchChartData(7), started 29 s after the first one stored its
\* dataset, returned that dataset without a provider request
WitnessFetchCaching ==
    \E c \in CallIds :
        /\ calls[c].method = Method("fetchChartData", 7)
        /\ calls[c].r.phase = "resolved" /\ calls[c].r.calls = 0
        /\ calls[c].r.result = lastSet[ChartKey(7)].data
        /\ MadeBy(calls[c].r.result) # c
        /\ lastSet[ChartKey(7)].at = RETRY_DELAY
        /\ now = CACHE_DURATION

\* fetchChartData(30) started a derivation of its own while the dataset of
\* fetchChartData(7) was fresh in the cache
WitnessChartDays ==
    \E c \in CallIds :
        /\ calls[c].method = Method("fetchChartData", 30)
        /\ calls[c].prov = "pending"
        /\ cache[ChartKey(7)] # NoEntry /\ now < cache[ChartKey(7)].timestamp

\* C9: a call all of whose MAX_RETRIES attempts failed is rejected with the
\* wrapped error of the last attempt, has no result and has stored nothing;
\* and a step in which an attempt fails leaves the cache as it was.
FailurePropagates ==
    /\ [](\A c \in CallIds :
             Len(calls[c].r.errors) = MAX_RETRIES =>
                 /\ calls[c].r.phase = "rejected"
                 /\ calls[c].r.result = NoData
                 /\ calls[c].r.thrown =
                        <<"Operation failed after attempts", MAX_RETRIES>>
                            \o calls[c].r.errors[MAX_RETRIES]
                 /\ calls[c].stores = 0)
    /\ [][\A c \in CallIds :
             calls'[c].r.errors # calls[c].r.errors => cache' = cache]_vars

\* a call was rejected while the cache held a dataset another call had
\* stored under the same key
WitnessFailurePropagates ==
    \E c \in CallIds :
        /\ calls[c].r.phase = "rejected"
        /\ cache[cacheKeyOf(calls[c].method)] # NoEntry

(***************************************************************************)
(* SpecProv: getTokenData called at any time; the upstream answers each    *)
(* request in any of the five ways.                                        *)
(***************************************************************************)
ProvInstants == {0, PROVIDER_CACHE_DURATION - 1, PROVIDER_CACHE_DURATION,
                 2 * PROVIDER_CACHE_DURATION, 10 * PROVIDER_CACHE_DURATION + 1}

notProv == <<cache, lastSet, lastGet, retryVars, orchVars, viewVars, hookVars, chartVars, rateVars, deriveVars, candleVars, holderVars>>

GetTokenData(c) ==
    /\ provCalls[c].phase = "idle"
    /\ \A d \in ProvCallIds : d < c => provCalls[d].phase # "idle"
    /\ provCalls' = [provCalls EXCEPT ![c] = getTokenDataEnter(provCache, now)]
    /\ UNCHANGED <<now, provCache, notProv>>

UpstreamResponds(c, resp) ==
    /\ provCalls[c].phase = "fetching"
    /\ LET out == getTokenDataResume(provCache, c, resp, now)
       IN /\ provCalls' = [provCalls EXCEPT ![c] = out[1]]
          /\ provCache' = out[2]
    /\ UNCHANGED <<now, notProv>>

ProvTick(t) ==
    /\ t > now
    /\ now' = t
    /\ UNCHANGED <<provVars, notProv>>

NextProv ==
    \/ \E c \in ProvCallIds : GetTokenData(c)
    \/ \E c \in ProvCallIds, resp \in Responses : UpstreamResponds(c, resp)
    \/ \E t \in ProvInstants : ProvTick(t)

SpecProv == InitAll /\ [][NextProv]_vars

\* C10: a getTokenData whose upstream request failed while the provider held
\* no cached snapshot ends in an error: it returns no snapshot.
ProviderFailureSurfaced ==
    \A c \in ProvCallIds :
        (provCalls[c].response \in FailedResponses /\ provCalls[c].cachedAt = -1)
            => /\ provCalls[c].phase = "threw"
               /\ provCalls[c].result = NoSnapshot

\* C11: when the upstream request fails, the cached snapshot is returned only
\* if its age is within the grace window of 10 x the TTL; an older one is
\* never returned and the call ends in an error.
StaleServeBounded ==
    \A c \in ProvCallIds :
        /\ provCalls[c].served = "stale"
              => provCalls[c].at - provCalls[c].cachedAt <= 10 * PROVIDER_CACHE_DURATION
        /\ (/\ provCalls[c].response \in FailedResponses
            /\ provCalls[c].cachedAt # -1
            /\ provCalls[c].at - provCalls[c].cachedAt > 10 * PROVIDER_CACHE_DURATION)
              => provCalls[c].phase = "threw"

(***************************************************************************)
(* SpecHook: one mounted useTokenData.  The refreshes settle in any order; *)
(* a refresh rejects with the 30 s timeout or with a service error.        *)
(***************************************************************************)
HookInstants == {0, REQUEST_TIMEOUT, REQUEST_TIMEOUT + RETRY_DELAY, POLL_INTERVAL}

notHook == <<cache, lastSet, lastGet, retryVars, orchVars, viewVars, provVars, chartVars, rateVars, deriveVars, candleVars, holderVars, outage>>

HookBecomes(w) ==
    /\ hook' = w.hook
    /\ reqs' = w.reqs
    /\ controller' = w.controller

\* fetchData called by who
Calls(who, rc, isRetry, w) ==
    /\ CanStart(w.reqs)
    /\ HookBecomes(fetchData(w, rc, isRetry, now))
    /\ caller' = who

\* React commits a re-render and runs its effects before the next event is
\* handled: no polling effect is waiting to run again
EffectsFlushed == mounted = "yes" => hook.retryCount = effectRc

\* the polling effect runs for the first time
Mount ==
    /\ mounted = "no"
    /\ Calls("mount", hook.retryCount, FALSE, HookWorld)
    /\ mounted' = "yes"
    /\ effectRc' = hook.retryCount
    /\ nextPoll' = now + POLL_INTERVAL
    /\ UNCHANGED <<now, notHook>>

\* retryCount changed, so fetchData is a new function: the polling effect
\* is cleaned up and runs again
EffectRerun ==
    /\ mounted = "yes"
    /\ hook.retryCount # effectRc
    /\ Calls("effect", hook.retryCount, FALSE, HookWorld)
    /\ effectRc' = hook.retryCount
    /\ nextPoll' = now + POLL_INTERVAL
    /\ UNCHANGED <<now, mounted, notHook>>

\* the setInterval callback of the polling effect
PollTick ==
    /\ mounted = "yes"
    /\ EffectsFlushed
    /\ now >= nextPoll
    /\ Calls("poll", effectRc, FALSE, HookWorld)
    /\ nextPoll' = nextPoll + POLL_INTERVAL
    /\ UNCHANGED <<now, mounted, effectRc, notHook>>

Refetch ==
    /\ mounted = "yes"
    /\ EffectsFlushed
    /\ Calls("refetch", hook.retryCount, FALSE, HookWorld)
    /\ UNCHANGED <<now, mounted, effectRc, nextPoll, notHook>>

HandleVisibilityChange ==
    /\ mounted = "yes"
    /\ EffectsFlushed
    /\ hook.connectionStatus = "disconnected"
    /\ Calls("visibility", hook.retryCount, FALSE, HookWorld)
    /\ UNCHANGED <<now, mounted, effectRc, nextPoll, notHook>>

HandleOnline ==
    /\ mounted = "yes"
    /\ EffectsFlushed
    /\ hook.connectionStatus = "disconnected"
    /\ Calls("online", hook.retryCount, FALSE, HookWorld)
    /\ UNCHANGED <<now, mounted, effectRc, nextPoll, notHook>>

HandleOffline ==
    /\ mounted = "yes"
    /\ EffectsFlushed
    /\ hook' = [hook EXCEPT !.connectionStatus = "disconnected",
                            !.error = <<"No internet connection">>]
    /\ UNCHANGED <<now, reqs, controller, mounted, effectRc, nextPoll, caller, notHook>>

\* the state setters of an unmounted component have no effect
Settles(w) ==
    /\ hook' = IF mounted = "yes" THEN w.hook ELSE hook
    /\ reqs' = w.reqs
    /\ UNCHANGED <<now, controller, mounted, effectRc, nextPoll, caller, notHook>>

FetchResolves(r) ==
    /\ EffectsFlushed
    /\ reqs[r].phase = "pending"
    /\ Settles(fetchResolved(HookWorld, r, now))

FetchRejects(r, err) ==
    /\ EffectsFlushed
    /\ reqs[r].phase = "pending"
    /\ err = TimeoutError => now >= reqs[r].startedAt + REQUEST_TIMEOUT
    /\ Settles(fetchRejected(HookWorld, r, err, now))

\* the setTimeout callback of the catch block
RetryTimerFires(r) ==
    /\ EffectsFlushed
    /\ reqs[r].timer # -1
    /\ now >= reqs[r].timer
    /\ LET w == [HookWorld EXCEPT !.reqs[r].timer = -1]
       IN IF reqs[r].aborted
          THEN HookBecomes(w) /\ UNCHANGED caller
          ELSE Calls("retry", reqs[r].rc, TRUE, w)
    /\ UNCHANGED <<now, mounted, effectRc, nextPoll, notHook>>

\* the cleanup of the polling effect when the component unmounts
Unmount ==
    /\ mounted = "yes"
    /\ EffectsFlushed
    /\ mounted' = "gone"
    /\ reqs' = abortCurrent(reqs, controller)
    /\ nextPoll' = -1
    /\ UNCHANGED <<now, hook, controller, effectRc, caller, notHook>>

HookTick(t) ==
    /\ mounted # "no"
    /\ EffectsFlushed
    /\ t > now
    /\ now' = t
    /\ UNCHANGED <<hookVars, notHook>>

NextHook ==
    \/ Mount
    \/ EffectRerun
    \/ PollTick
    \/ Refetch
    \/ HandleVisibilityChange
    \/ HandleOnline
    \/ HandleOffline
    \/ \E r \in ReqIds : FetchResolves(r)
    \/ \E r \in ReqIds, err \in {TimeoutError, InvalidStatsError} : FetchRejects(r, err)
    \/ \E r \in ReqIds : RetryTimerFires(r)
    \/ Unmount
    \/ \E t \in HookInstants : HookTick(t)

SpecHook == InitAll /\ [][NextHook]_vars

Shown(h) ==
    <<h.holders, h.transactions, h.poolData, h.stats, h.priceData, h.volumeData,
      h.holderData, h.whaleData, h.connectionStatus, h.error>>

\* C1: when a refresh A settles after a refresh B that was issued after A
\* has settled, the datasets, the connection status and the error stay as
\* they were: A writes nothing into the state.
StaleRequestDiscard ==
    [][\A a \in ReqIds :
          (/\ mounted = "yes"
           /\ reqs[a].phase = "pending" /\ Done(reqs'[a])
           /\ \E b \in ReqIds : b > a /\ Done(reqs[b]))
          => Shown(hook') = Shown(hook)]_vars

\* C14: after a retriable failure has scheduled a retry with delay
\* min(1000 * 2^n, 10000), the next automatic fetch (one started by the retry
\* timer or by the polling effect running again) starts no earlier than that
\* delay after the failure.
HookRetryBackoff ==
    \A r \in ReqIds :
        (/\ reqs[r].phase = "rejected" /\ reqs[r].timer # -1
         /\ controller > r
         /\ caller \in {"retry", "effect"})
        => reqs[controller].startedAt >= reqs[r].timer

Datasets(h) ==
    <<h.holders, h.transactions, h.poolData, h.stats, h.priceData, h.volumeData,
      h.holderData, h.whaleData, h.lastUpdate>>

\* C15: the step in which a refresh fails leaves holders, transactions,
\* poolData, stats and the four chart series (and lastUpdate) unchanged.
LastGoodDataSurvives ==
    [][\A r \in ReqIds :
          (reqs[r].phase = "pending" /\ reqs'[r].phase = "rejected")
          => Datasets(hook') = Datasets(hook)]_vars

\* a refresh failed while the data of an earlier refresh was on screen
WitnessLastGoodDataSurvives ==
    \E r \in ReqIds :
        /\ reqs[r].phase = "rejected"
        /\ hook.holders # 0 /\ hook.holders < r
        /\ hook.stats = hook.holders
        /\ hook.connectionStatus = "disconnected"
        /\ hook.error # NoError

WitnessUnmountNoRetry ==
    /\ mounted = "gone"
    /\ \E r \in ReqIds : reqs[r].phase = "rejected" /\ reqs[r].aborted /\ controller = r
    /\ \A r \in ReqIds : reqs[r].phase # "pending" /\ reqs[r].timer = -1
    /\ hook.isLoading /\ hook.retryCount = 0

(***************************************************************************)
(* SpecOutage: the hook is mounted while the upstream is down.  Every      *)
(* refresh fails with a retriable error; there is no polling tick, no      *)
(* online or visibility event and no manual refetch.                       *)
(***************************************************************************)
FetchFailedError == <<"Operation failed after 3 attempts: Failed to fetch", "fetch">>

OutageBegins ==
    /\ mounted = "no"
    /\ ~outage
    /\ outage' = TRUE
    /\ UNCHANGED <<now, hook, reqs, controller, mounted, effectRc, nextPoll, caller>>
    /\ UNCHANGED <<cache, lastSet, lastGet, retryVars, orchVars, viewVars, provVars,
                   chartVars, rateVars, deriveVars, candleVars, holderVars>>

NextOutage ==
    \/ OutageBegins
    \/ outage /\ Mount
    \/ EffectRerun
    \/ \E r \in ReqIds, err \in {TimeoutError, FetchFailedError} : FetchRejects(r, err)
    \/ \E r \in ReqIds : RetryTimerFires(r)
    \/ \E t \in HookInstants : HookTick(t)

SpecOutage == InitAll /\ [][NextOutage]_vars

\* the refreshes started after the first one: all of them automatic
AutomaticFetches == {r \in ReqIds : r > 1 /\ reqs[r].phase # "none"}
FailedFetches == {r \in ReqIds : reqs[r].phase = "rejected"}

\* C26: after a refresh failed with a retriable error at most maxRetries = 3
\* automatic attempts are started, and once they have all failed the error
\* says '(Max retries exceeded)'.
BoundedHookRetries ==
    /\ Cardinality(AutomaticFetches) <= hookMaxRetries
    /\ Cardinality(FailedFetches) > hookMaxRetries
          => (Len(hook.error) = 2 /\ hook.error[2] = "(Max retries exceeded)")

(***************************************************************************)
(* SpecView: the pointer events of one chart, in any order.                *)
(***************************************************************************)
Pixels == {0, 3, 8, CanvasWidth}         \* x positions of the events
WheelDeltas == {-100, 100}                \* event.deltaY

notView == <<cacheVars, retryVars, orchVars, provVars, hookVars,
             chart, loads, observing, listening, destroyed,
             rateVars, deriveVars, candleVars, holderVars>>

\* the listener of the canvas runs
Handled(op, x) ==
    /\ listening
    /\ lastOp.n < MaxOps
    /\ lastOp' = [n |-> lastOp.n + 1, op |-> op, x |-> x]

\* mousedown with the left button
HandleMouseDown(x) ==
    /\ Handled("mousedown", x)
    /\ selection' = startSelection(x)
    /\ UNCHANGED <<zoom, raf, notView>>

\* mouseup with the left button while a selection is in progress
HandleMouseUp(x) ==
    /\ selection # NoSelection
    /\ Handled("mouseup", x)
    /\ zoom' = endSelection(zoom, selection, x)
    /\ selection' = NoSelection
    /\ raf' = render(raf)
    /\ UNCHANGED notView

HandleWheel(x, deltaY) ==
    /\ Handled("wheel", x)
    /\ zoom' = zoomChart(zoom, zoomFactor(deltaY), x)
    /\ raf' = render(raf)
    /\ UNCHANGED <<selection, notView>>

HandleDoubleClick(x) ==
    /\ Handled("dblclick", x)
    /\ zoom' = FullView
    /\ raf' = render(raf)
    /\ UNCHANGED <<selection, notView>>

NextView ==
    \/ \E x \in Pixels : HandleMouseDown(x)
    \/ \E x \in Pixels : HandleMouseUp(x)
    \/ \E x \in Pixels, d \in WheelDeltas : HandleWheel(x, d)
    \/ \E x \in Pixels : HandleDoubleClick(x)

SpecView == InitAll /\ [][NextView]_vars

\* C6: after every wheel zoom, drag selection and double-click reset, in any
\* order from the full view, 0 <= start < end <= 1.
ViewportInvariant ==
    /\ 0 <= zoom.start
    /\ zoom.start < zoom.end
    /\ zoom.end <= Unit

\* the viewport was zoomed in against the right edge, where newEnd is clamped
WitnessViewportInvariant ==
    /\ lastOp.op = "wheel" /\ lastOp.x = CanvasWidth
    /\ zoom.end = Unit /\ zoom.start > Unit \div 2

\* C7: a drag from fraction a to fraction b that ends with |b - a| > 5% sets
\* the viewport to {min(a,b), max(a,b)} with start < end; a shorter one
\* leaves the viewport as it was; either way the selection is cleared.
SelectionThreshold ==
    [][(lastOp'.n # lastOp.n /\ lastOp'.op = "mouseup") =>
         LET a == selection.start
             b == ratioOf(lastOp'.x)
         IN  /\ selection' = NoSelection
             /\ IF Abs(b - a) * 100 > 5 * Unit
                THEN /\ zoom' = [start |-> Min(a, b), end |-> Max(a, b)]
                     /\ zoom'.start < zoom'.end
                ELSE zoom' = zoom]_vars

\* a right-to-left drag of 8% became the viewport
WitnessSelectionThreshold ==
    /\ lastOp.op = "mouseup" /\ lastOp.x = 0
    /\ selection = NoSelection
    /\ zoom = [start |-> 0, end |-> ratioOf(8)]

\* a 3% drag was discarded while the viewport was zoomed in
WitnessSelectionDiscarded ==
    /\ lastOp.op = "mouseup" /\ lastOp.x = 3
    /\ selection = NoSelection
    /\ zoom.start > 0

(***************************************************************************)
(* SpecZoom: wheel events only, from the full view.                        *)
(***************************************************************************)
ZoomPixels == {0, 50, CanvasWidth}

NextZoom == \E x \in ZoomPixels, d \in WheelDeltas : HandleWheel(x, d)

SpecZoom == InitAll /\ [][NextZoom]_vars

\* C21: after any sequence of zoom operations from the full view the visible
\* range end - start is at least the minimum visible fraction 0.01, also when
\* the zoom centre is at the right edge of the data.
ZoomMinimumRange == 100 * (zoom.end - zoom.start) >= Unit

\* C30: a zoom out (factor 1.1) never makes the visible range smaller and a
\* zoom in (factor 0.9) never makes it larger; zooming out from the full view
\* leaves the full view.
ZoomMonotone ==
    [][\A x \in ZoomPixels :
          /\ HandleWheel(x, 100) =>
                /\ zoom'.end - zoom'.start >= zoom.end - zoom.start
                /\ zoom = FullView => zoom' = FullView
          /\ HandleWheel(x, -100) =>
                zoom'.end - zoom'.start <= zoom.end - zoom.start]_vars

(***************************************************************************)
(* SpecChart: one chart instance.  Its owner calls loadData while the      *)
(* chart is alive and destroy() once; the loads in flight settle in any    *)
(* order, also after destroy().                                            *)
(***************************************************************************)
LoadErrors == {<<"Error", "Failed to fetch">>, <<"other", "timeout">>}
DataLengths == {0, 2}                 \* rawData.length
ChartInstants == {0, 1}                \* Date.now() of a chart
ChartPixels == {50}                   \* the wheel zooms in at the centre
ChartWheelDeltas == {-100}

notChart == <<cache, lastSet, lastGet, retryVars, orchVars, provVars, hookVars, rateVars, deriveVars, candleVars, holderVars>>

LoadData(timeframe) ==
    /\ ~destroyed
    /\ \E l \in LoadIds :
          /\ loads[l].phase = "none"
          /\ \A k \in LoadIds : k < l => loads[k].phase # "none"
          /\ loads' = [loads EXCEPT ![l] = [NoLoad EXCEPT !.phase = "pending",
                                                          !.timeframe = timeframe]]
    /\ chart' = loadDataEnter(chart)
    /\ UNCHANGED <<now, raf, observing, listening, destroyed, viewVars, notChart>>

LoadResolves(l, len) ==
    /\ loads[l].phase = "pending"
    /\ loads' = [loads EXCEPT ![l].phase = "resolved"]
    /\ chart' = loadDataResolved(chart, Dataset(l, len), now)
    /\ zoom' = calculateZoomBounds(zoom, Dataset(l, len))
    /\ raf' = render(raf)
    /\ UNCHANGED <<now, observing, listening, destroyed, selection, lastOp, notChart>>

LoadRejects(l, thrown) ==
    /\ loads[l].phase = "pending"
    /\ loads' = [loads EXCEPT ![l].phase = "rejected", ![l].thrown = thrown]
    /\ chart' = loadDataRejected(chart, thrown)
    /\ UNCHANGED <<now, raf, observing, listening, destroyed, viewVars, notChart>>

\* the browser runs a requested frame: the one animationFrame names, or
\* another one
FrameRuns(named) ==
    /\ IF named THEN raf.live ELSE raf.pending > (IF raf.live THEN 1 ELSE 0)
    /\ raf' = frameRuns(raf, named)
    /\ UNCHANGED <<now, chart, loads, observing, listening, destroyed, viewVars, notChart>>

\* the callback of the ResizeObserver
Resize ==
    /\ observing
    /\ raf' = render(raf)
    /\ UNCHANGED <<now, chart, loads, observing, listening, destroyed, viewVars, notChart>>

Destroy ==
    /\ ~destroyed
    /\ raf' = cancelFrame(raf)
    /\ observing' = FALSE
    /\ listening' = FALSE
    /\ destroyed' = TRUE
    /\ UNCHANGED <<now, chart, loads, viewVars, notChart>>

ChartTick(t) ==
    /\ t > now
    /\ now' = t
    /\ UNCHANGED <<chartVars, viewVars, notChart>>

NextChart ==
    \/ \E tf \in Timeframes : LoadData(tf)
    \/ \E l \in LoadIds, len \in DataLengths : LoadResolves(l, len)
    \/ \E l \in LoadIds, thrown \in LoadErrors : LoadRejects(l, thrown)
    \/ \E named \in BOOLEAN : FrameRuns(named)
    \/ Resize
    \/ Destroy
    \/ \E x \in ChartPixels, d \in ChartWheelDeltas :
          lastOp.n < MaxChartOps /\ HandleWheel(x, d)
    \/ \E t \in ChartInstants : ChartTick(t)

SpecChart == InitAll /\ [][NextChart]_vars

\* C12: the step in which a loadData fails sets error to the message of the
\* error, leaves data and lastUpdate as they were and ends with loading
\* false; a dataset that was loaded is not replaced by an empty one.
LoadFailureKeepsData ==
    [][\A l \in LoadIds :
          (loads[l].phase = "pending" /\ loads'[l].phase = "rejected")
          => /\ chart'.error = errorMessage(loads'[l].thrown)
             /\ chart'.error # Null
             /\ chart'.data = chart.data
             /\ chart'.lastUpdate = chart.lastUpdate
             /\ chart'.loading = FALSE
             /\ (chart.data.len > 0 => chart'.data.len > 0)]_vars

\* a load failed after an earlier load had put a dataset on the chart
WitnessLoadFailureKeepsData ==
    \E l \in LoadIds :
        /\ loads[l].phase = "rejected"
        /\ chart.error = errorMessage(loads[l].thrown)
        /\ chart.data.len > 0 /\ chart.data.id < l
        /\ chart.lastUpdate > 0
        /\ ~chart.loading

\* C13: once destroy() has returned, no animation-frame callback is pending,
\* the resize observer is disconnected and no pointer listener is
\* registered, in every later state.
DestroyReleases ==
    destroyed => (raf.pending = 0 /\ ~observing /\ ~listening)

\* C22: a step that is not a wheel zoom, a completed drag selection or a
\* double-click reset (loadData succeeding or failing, a frame, a resize,
\* destroy) leaves the viewport {start, end} as it was.
ViewportFrame == [][lastOp' = lastOp => zoom' = zoom]_vars

\* the loadData calls issued so far
IssuedLoads == {l \in LoadIds : loads[l].phase # "none"}
InFlightLoads == {l \in LoadIds : loads[l].phase = "pending"}

\* C27: once overlapping loadData calls have all completed, state.data is the
\* dataset of the call issued last, whatever the order they resolved in.
LastLoadWins ==
    \A l \in IssuedLoads :
        (/\ InFlightLoads = {}
         /\ \A k \in IssuedLoads : k <= l
         /\ loads[l].phase = "resolved")
        => chart.data.id = l

\* C28: at most one animation-frame callback is pending, and it is the one
\* the last render() requested: render() calls made before the next frame
\* leave one drawing pass.
RenderCoalescing ==
    /\ raf.pending <= 1
    /\ raf.pending = 1 <=> raf.live

\* two loads and a wheel event each called render(), and one frame is pending
WitnessRenderCoalescing ==
    /\ lastOp.op = "wheel"
    /\ loads[1].phase = "resolved" /\ loads[2].phase = "resolved"
    /\ raf.pending = 1 /\ raf.live

\* C29: state.loading is true exactly while at least one loadData call is in
\* flight.
LoadingTracksLoads == chart.loading <=> InFlightLoads # {}


(***************************************************************************)
(* SpecDerive: one snapshot is received from the upstream service, then    *)
(* fetchTokenStats and fetchTransactions derive from it (their cache-miss  *)
(* path; the caching itself is SpecCache).                                 *)
(***************************************************************************)
DexPrices == {NaN, Num(-1), Num(0), R(1, 2), Num(1), Num(2), Huge}
DexMarketCaps == {NaN, Num(-5), Num(0), Num(3), Num(1000000), Tiny}
DexVolumes == {Num(0), Num(100000)}
DexTxns == {0, 60, 150}
\* values of Math.random() * 10000 + 100, in [100, 10100)
RandomBases == {100, 500, 1000, 1500, 3000}
notDerive == <<cacheVars, retryVars, orchVars, viewVars, provVars, hookVars, chartVars, rateVars, candleVars, holderVars>>

\* dexscreenerService.getTokenData() answers with a snapshot
ReceiveSnapshot(price, marketCap, volume24h, txns24h) ==
    /\ dex = NoDex
    /\ dex' = [price |-> price, marketCap |-> marketCap,
               volume24h |-> volume24h, txns24h |-> txns24h]
    /\ UNCHANGED <<stats, transactions>>
    /\ UNCHANGED notDerive

\* fetchTransactions(), nothing cached
FetchTransactions(bases) ==
    /\ dex # NoDex
    /\ transactions' = generateRealisticTransactions(dex, bases)
    /\ UNCHANGED <<dex, stats>>
    /\ UNCHANGED notDerive

\* fetchTokenStats(), nothing cached; its own fetchTransactions() generates
\* the transactions when there are none yet
FetchTokenStats(bases) ==
    /\ dex # NoDex
    /\ transactions' = IF transactions = NoTransactions
                       THEN generateRealisticTransactions(dex, bases)
                       ELSE transactions
    /\ stats' = IF statsInvalid(tokenStats(dex)) THEN stats ELSE tokenStats(dex)
    /\ UNCHANGED dex
    /\ UNCHANGED notDerive

NextDerive ==
    \/ \E p \in DexPrices, m \in DexMarketCaps, v \in DexVolumes, n \in DexTxns :
           ReceiveSnapshot(p, m, v, n)
    \/ \E bases \in SUBSET RandomBases \ {{}} : FetchTransactions(bases)
    \/ \E bases \in SUBSET RandomBases \ {{}} : FetchTokenStats(bases)

SpecDerive == InitAll /\ [][NextDerive]_vars

\* C17: once fetchTokenStats has derived the stats of a snapshot, totalSupply is
\* marketCap / price when marketCap > 0 and price > 0 and 100000000 otherwise,
\* and circulatingSupply is 95% of totalSupply; marketCap 1000000 at price 2
\* gives 500000 and 475000.
DerivedSupply ==
    stats # NoStats =>
        /\ (Gt(dex.marketCap, Num(0)) /\ Gt(dex.price, Num(0)))
              => stats.totalSupply = Div(dex.marketCap, dex.price)
        /\ ~(Gt(dex.marketCap, Num(0)) /\ Gt(dex.price, Num(0)))
              => stats.totalSupply = Num(100000000)
        \* 95% = 19/20
        /\ Mul(stats.circulatingSupply, Num(20)) = Mul(stats.totalSupply, Num(19))
        /\ (dex.marketCap = Num(1000000) /\ dex.price = Num(2))
              => (stats.totalSupply = Num(500000) /\ stats.circulatingSupply = Num(475000))

WitnessDerivedSupply ==
    /\ dex.marketCap = Num(1000000) /\ dex.price = Num(2)
    /\ stats.totalSupply = Num(500000) /\ stats.circulatingSupply = Num(475000)

WitnessFallbackSupply ==
    /\ dex.marketCap = Num(0) /\ dex.price = Num(2)
    /\ stats.totalSupply = Num(100000000) /\ stats.circulatingSupply = Num(95000000)

\* C18: every synthesized transaction is flagged isLargeTransfer exactly when
\* its amount is strictly greater than 1% of the snapshot's volume24h; at
\* volume24h 100000, amount 1500 is flagged and amounts 500 and 1000 are not.
LargeTransferFlag ==
    \A tx \in transactions.elems :
        /\ tx.isLargeTransfer <=> Gt(Mul(tx.amount, Num(100)), dex.volume24h)
        /\ dex.volume24h = Num(100000) =>
              /\ tx.amount = Num(1500) => tx.isLargeTransfer
              /\ tx.amount \in {Num(500), Num(1000)} => ~tx.isLargeTransfer

WitnessLargeTransferFlag ==
    /\ dex.volume24h = Num(100000)
    /\ \E a, b, c \in transactions.elems :
          /\ a.amount = Num(1500) /\ a.isLargeTransfer
          /\ b.amount = Num(1000) /\ ~b.isLargeTransfer
          /\ c.amount = Num(500) /\ ~c.isLargeTransfer

(***************************************************************************)
(* SpecCandles: a set of candles is loaded and enriched with its moving    *)
(* average, then painted by the chart engine under some zoom window and by *)
(* QuantlinkChart.                                                         *)
(***************************************************************************)
CandleKinds == {Candle(1, 2), Candle(2, 1), Candle(1, 1), Candle(1, 4)}
RECURSIVE SeqsUpTo(_, _)
SeqsUpTo(S, n) ==
    IF n = 0 THEN {<<>>}
    ELSE LET shorter == SeqsUpTo(S, n - 1)
         IN shorter \cup {Append(q, x) : q \in shorter, x \in S}
Periods == 1..MaxPeriod
ZoomWindows == {[start |-> Num(0), end |-> Num(1)],
                [start |-> Num(0), end |-> R(1, 2)],
                [start |-> R(1, 2), end |-> Num(1)]}
notCandle == <<cacheVars, retryVars, orchVars, viewVars, provVars, hookVars, chartVars, rateVars, deriveVars, holderVars>>

\* enrichWithTechnicalAnalysis on freshly loaded candles
Enrich(data, period) ==
    /\ sma = NoSMA
    /\ candles' = data
    /\ sma' = [period |-> period, values |-> calculateSMA(data, period)]
    /\ UNCHANGED <<engineDrawn, quantlinkDrawn>>
    /\ UNCHANGED notCandle

\* drawChart() of a candlestick chart: nothing is drawn without data
DrawCandlesticks(z) ==
    /\ sma # NoSMA
    /\ engineDrawn' = IF Len(candles) = 0 THEN engineDrawn
                      ELSE drawCandlesticks(candles, z)
    /\ UNCHANGED <<candles, sma, quantlinkDrawn>>
    /\ UNCHANGED notCandle

\* the drawing effect of QuantlinkChart with type 'price'
DrawCandlestickChart ==
    /\ sma # NoSMA
    /\ quantlinkDrawn' = IF Len(candles) = 0 THEN quantlinkDrawn
                         ELSE drawCandlestickChart(candles)
    /\ UNCHANGED <<candles, sma, engineDrawn>>
    /\ UNCHANGED notCandle

NextCandles ==
    \/ \E data \in SeqsUpTo(CandleKinds, MaxLen), period \in Periods : Enrich(data, period)
    \/ \E z \in ZoomWindows : DrawCandlesticks(z)
    \/ DrawCandlestickChart

SpecCandles == InitAll /\ [][NextCandles]_vars

\* the sum of close[lo..hi] (0-based, inclusive)
RECURSIVE CloseSum(_, _)
CloseSum(lo, hi) ==
    IF hi < lo THEN Num(0) ELSE Add(candles[hi + 1].close, CloseSum(lo, hi - 1))

\* C19: the moving average has the length of the input; its entries at indices
\* 0..period-2 are NaN and its entry at every index i >= period-1 is the
\* arithmetic mean of close[i-period+1..i].
SMAAlignment ==
    sma # NoSMA =>
        /\ Len(sma.values) = Len(candles)
        /\ \A i \in 0..(Len(candles) - 1) :
              /\ i <= sma.period - 2 => sma.values[i + 1] = NaN
              /\ i >= sma.period - 1 =>
                    /\ sma.values[i + 1] # NaN
                    /\ Mul(sma.values[i + 1], Num(sma.period))
                          = CloseSum(i - sma.period + 1, i)

WitnessSMAAlignment ==
    /\ candles = <<Candle(1, 2), Candle(2, 1), Candle(1, 4)>>
    /\ sma.period = 2
    /\ sma.values = <<NaN, R(3, 2), R(5, 2)>>

WitnessSMAPeriodBeyondData ==
    /\ Len(candles) = 2
    /\ sma.period = 3
    /\ sma.values = <<NaN, NaN>>

\* C20: every candle drawn with close > open has the up colour on body and
\* wick, and every candle drawn with close <= open, close = open included, has
\* the down colour on both, in the chart engine and in QuantlinkChart.
CandleColoring ==
    /\ \A k \in 1..Len(engineDrawn) :
          LET d == engineDrawn[k]
              candle == candles[d.index + 1]
          IN /\ Gt(candle.close, candle.open) => (d.body = UP_BODY /\ d.wick = UP_WICK)
             /\ Le(candle.close, candle.open) => (d.body = DOWN_BODY /\ d.wick = DOWN_WICK)
    /\ \A k \in 1..Len(quantlinkDrawn) :
          LET d == quantlinkDrawn[k]
              candle == candles[d.index + 1]
          IN /\ Gt(candle.close, candle.open) => (d.body = UP_BODY /\ d.wick = UP_BODY)
             /\ Le(candle.close, candle.open) => (d.body = DOWN_BODY /\ d.wick = DOWN_BODY)

WitnessCandleColoring ==
    /\ candles = <<Candle(1, 2), Candle(2, 1), Candle(1, 1)>>
    /\ engineDrawn = <<[index |-> 0, body |-> UP_BODY, wick |-> UP_WICK],
                       [index |-> 1, body |-> DOWN_BODY, wick |-> DOWN_WICK],
                       [index |-> 2, body |-> DOWN_BODY, wick |-> DOWN_WICK]>>
    /\ quantlinkDrawn = <<[index |-> 0, body |-> UP_BODY, wick |-> UP_BODY],
                          [index |-> 1, body |-> DOWN_BODY, wick |-> DOWN_BODY],
                          [index |-> 2, body |-> DOWN_BODY, wick |-> DOWN_BODY]>>

(***************************************************************************)
(* SpecStats: one fetchTokenStats() on an empty cache: withRetry around    *)
(* the derivation, which gets a snapshot from the provider on every        *)
(* attempt, or fails with the provider.                                    *)
(***************************************************************************)
InvalidCalculatedStats == <<"Invalid calculated token stats">>
StatsSnapshots ==
    {[price |-> p, marketCap |-> m, volume24h |-> Num(100000), txns24h |-> 60] :
        p \in {Num(2), Huge}, m \in {Num(0), Num(1000000), Tiny}}
notStats == <<cache, lastSet, lastGet, orchVars, viewVars, provVars, hookVars,
              chartVars, rateVars, candleVars, holderVars>>

\* fetchTokenStats(): nothing cached, withRetry starts the derivation
StatsFetch ==
    /\ retry.phase = "idle"
    /\ retry' = withRetryStart(MAX_RETRIES)
    /\ retryStartedAt' = now
    /\ UNCHANGED <<now, deriveVars, notStats>>

\* the derivation ran with snapshot d: it returns the stats, or throws
\* 'Invalid calculated token stats' into the catch of withRetry
StatsDerivation(d) ==
    /\ retry.phase = "running"
    /\ dex' = d
    /\ transactions' = IF transactions = NoTransactions
                       THEN generateRealisticTransactions(d, {1500})
                       ELSE transactions
    /\ IF statsInvalid(tokenStats(d))
       THEN /\ retry' = opFailed(retry, InvalidCalculatedStats, now)
            /\ UNCHANGED stats
       ELSE /\ retry' = opSucceeded(retry, 1)
            /\ stats' = tokenStats(d)
    /\ UNCHANGED <<now, retryStartedAt, notStats>>

\* the provider failed during the derivation
StatsProviderFails(err) ==
    /\ retry.phase = "running"
    /\ retry' = opFailed(retry, err, now)
    /\ UNCHANGED <<now, retryStartedAt, deriveVars, notStats>>

NextStats ==
    \/ StatsFetch
    \/ \E d \in StatsSnapshots : StatsDerivation(d)
    \/ \E e \in OpErrors : StatsProviderFails(e)
    \/ RetryTimer
    \/ \E t \in Instants : RetryTick(t)

SpecStats == InitAll /\ [][NextStats]_vars

\* C23: when the derivation of fetchTokenStats fails its sanity check
\* ('Invalid calculated token stats'), the derivation has run exactly once,
\* no backoff wait was made and the error has been propagated.
IntegrityNotRetried ==
    (retry.errors # <<>> /\ retry.errors[1] = InvalidCalculatedStats) =>
        /\ retry.calls = 1
        /\ retry.delays = <<>>
        /\ retry.phase = "rejected"

(***************************************************************************)
(* SpecHolders: fetchTokenHolders derives the holder list from one answer  *)
(* of getRealTimeHolderData (cache-miss path).                             *)
(***************************************************************************)
TotalHolderCounts == {0, 1, 5, 10, 11, 50, 55, 60, 61, 70, 1500}
TopHolderCounts == 0..MaxTop
notHolder == <<cacheVars, retryVars, orchVars, viewVars, provVars, hookVars, chartVars, rateVars, deriveVars, candleVars>>

FetchTokenHolders(total, top) ==
    /\ holderData = NoHolderData
    /\ holderData' = [totalHolders |-> total, topHolders |-> top]
    /\ holders' = generateRealisticHolders(holderData')
    /\ UNCHANGED notHolder

NextHolders == \E total \in TotalHolderCounts, top \in TopHolderCounts : FetchTokenHolders(total, top)

SpecHolders == InitAll /\ [][NextHolders]_vars

\* C24: the holder list is the provider's top holders followed by synthetic
\* small holders, and its length is max(totalHolders, number of top holders),
\* for every totalHolders.
HolderPadding ==
    holderData # NoHolderData =>
        /\ \A i \in 1..Len(holders) :
              holders[i] = IF i <= holderData.topHolders THEN "top" ELSE "small"
        /\ Len(holders) = Max(holderData.totalHolders, holderData.topHolders)

(***************************************************************************)
(* SpecRate: checkRateLimit called for two identifiers at any time, and    *)
(* the periodic cleanup.                                                   *)
(***************************************************************************)
RateInstants == {0, RATE_WINDOW, RATE_WINDOW + 1,
                 2 * RATE_WINDOW + RATE_ENTRY_MAX_AGE + 2}

notRate == <<cache, lastSet, lastGet, retryVars, orchVars, viewVars, provVars,
             hookVars, chartVars, deriveVars, candleVars, holderVars>>

\* the window of the identifier after one more call at time t: a window
\* starts at the first call and at the first call after its 60 s
windowAfter(w, t) ==
    IF w.start = -1 \/ t > w.start + RATE_WINDOW
    THEN [start |-> t, calls |-> 1]
    ELSE [w EXCEPT !.calls = @ + 1]

CheckRateLimit(identifier) ==
    /\ rateLimitMap[identifier].count < MaxChecks
    /\ LET out == checkRateLimit(rateLimitMap, identifier, now)
       IN /\ rateLimitMap' = out[1]
          /\ lastCheck' = [n |-> 1 - lastCheck.n, identifier |-> identifier,
                           at |-> now, result |-> out[2]]
    /\ rateWindow' = [rateWindow EXCEPT ![identifier] = windowAfter(@, now)]
    /\ UNCHANGED <<now, notRate>>

CleanupRateLimits ==
    /\ rateLimitMap' = cleanupRateLimits(rateLimitMap, now)
    /\ UNCHANGED <<now, rateWindow, lastCheck, notRate>>

RateTick(t) ==
    /\ t > now
    /\ now' = t
    /\ UNCHANGED <<rateVars, notRate>>

NextRate ==
    \/ \E i \in Identifiers : CheckRateLimit(i)
    \/ CleanupRateLimits
    \/ \E t \in RateInstants : RateTick(t)

SpecRate == InitAll /\ [][NextRate]_vars

\* C16: a call is allowed exactly when it is one of the first 60 calls of its
\* identifier's window; a denied call returns the end of the window; the
\* first call of a window leaves the count at 1 and blocked cleared; a call
\* changes nothing of another identifier.
RateLimit ==
    [][lastCheck' # lastCheck =>
            LET i == lastCheck'.identifier
                w == rateWindow'[i]
            IN /\ lastCheck'.result.allowed = (w.calls <= MAX_REQUESTS_PER_MINUTE)
               /\ ~lastCheck'.result.allowed
                     => lastCheck'.result.resetTime = w.start + RATE_WINDOW
               /\ w.calls = 1
                     => /\ rateLimitMap'[i].count = 1
                        /\ ~rateLimitMap'[i].blocked
                        /\ rateLimitMap'[i].resetTime = now + RATE_WINDOW
               /\ \A j \in Identifiers \ {i} : rateLimitMap'[j] = rateLimitMap[j]]_vars

\* the 61st call of a window was denied while the other identifier was
\* still allowed
WitnessRateLimit ==
    /\ lastCheck.identifier = "user-1"
    /\ ~lastCheck.result.allowed
    /\ rateWindow["user-1"].calls = MAX_REQUESTS_PER_MINUTE + 1
    /\ rateWindow["user-2"].calls \in 1..MAX_REQUESTS_PER_MINUTE

\* a new window was started after a blocked one ran out
WitnessRateWindowReset ==
    /\ lastCheck.result.allowed
    /\ lastCheck.at > RATE_WINDOW
    /\ rateWindow[lastCheck.identifier].calls = 1
    /\ rateWindow[lastCheck.identifier].start = lastCheck.at
    /\ rateLimitMap[lastCheck.identifier].count = 1

====
